---- MODULE Spec2Model ----
\* A model of g11n.go: the MessageFactory, its locale registry, its active
\* dictionary, the string initializers it accumulates and the message handlers
\* it synthesizes for func fields.
\*
\* Go strings are modelled as sequences of tokens, so that formatting, the
\* result hook and the parameter hook are real (non-identity) conversions.
\* A pattern is a token sequence in which the token "%v" is a verb.

EXTENDS Integers, Sequences, FiniteSets, TLC

VARIABLES
    locales,             \* mf.locales: tag -> localeInfo
    dictionary,          \* mf.dictionary: message key -> pattern
    stringInitializers,  \* mf.stringInitializers: sequence of closures
    handlers,            \* environments of the closures made by messageHandler
    heap,                \* the record instances (caller-allocated and embedded)
    last,                \* the last operation and what it returned or panicked with
    loaded,              \* history: some LoadLocale has returned
    loading              \* the position of a LoadLocale that runs step by step

vars == <<locales, dictionary, stringInitializers, handlers, heap, last, loaded,
          loading>>

-----------------------------------------------------------------------------
\* Bounds of the model.

MaxRecords == 1         \* records the caller allocates
MaxInitializers == 4    \* length of mf.stringInitializers

-----------------------------------------------------------------------------
\* The environment: tags, formats, files, record types, argument values.

Tags == {"fr", "de"}
LoadTags == Tags \cup {"en"}

\* The registrations a caller makes: <<tag, format, path>>.
Registrations ==
    { <<"de", "xml", "de.yaml">>,
      <<"de", "yaml", "fr.yaml">> }

\* The maps a caller passes to SetLocales, with the format of each.
BulkRegistrations ==
    { <<("fr" :> "fr.yaml") @@ ("de" :> "de.yaml"), "yaml">> }

NoPanic == <<>>
Nil == 0

\* fmt's %v of a value: strings, ints and language tags print as their text,
\* any other type prints in its default struct representation.
Render(val) ==
    IF val.type \in {"string", "int", "Tag"}
    THEN val.v
    ELSE <<"{">> \o val.v \o <<"}">>

Str(tokens) == [type |-> "string", v |-> tokens]

RECURSIVE Extra(_, _)
Extra(params, k) ==
    IF k > Len(params) THEN <<>>
    ELSE (IF k < Len(params) THEN <<params[k].type, "=">> \o Render(params[k]) \o <<", ">>
          ELSE <<params[k].type, "=">> \o Render(params[k]))
         \o Extra(params, k + 1)

\* fmt.Sprintf restricted to the %v verb: the k-th verb takes the k-th
\* operand, a verb without operand prints %!v(MISSING), operands left over
\* print as %!(EXTRA type=value, ...).
RECURSIVE SprintfFrom(_, _, _)
SprintfFrom(pattern, params, k) ==
    IF pattern = <<>>
    THEN IF k <= Len(params)
         THEN <<"%!(EXTRA ">> \o Extra(params, k) \o <<")">>
         ELSE <<>>
    ELSE IF Head(pattern) = "%v"
         THEN (IF k <= Len(params) THEN Render(params[k]) ELSE <<"%!v(MISSING)">>)
              \o SprintfFrom(Tail(pattern), params, k + 1)
         ELSE <<Head(pattern)>> \o SprintfFrom(Tail(pattern), params, k)

Sprintf(pattern, params) == SprintfFrom(pattern, params, 1)

\* Error message patterns.
wrongResultsCountMessage ==
    <<"Wrong number of results in a g11n message. Expected 1, got ", "%v", ".">>
unknownFormatMessage == <<"Unknown locale format '", "%v", "'.">>
unknownLocaleTag == <<"Unknown locale '", "%v", "'.">>

IntStr(n) == CASE n = 0 -> "0" [] n = 1 -> "1" [] n = 2 -> "2" [] OTHER -> "n"
IntVal(n) == [type |-> "int", v |-> <<IntStr(n)>>]
TagVal(tag) == [type |-> "Tag", v |-> <<tag>>]

\* The loader registry of package locale: the formats that have a loader.
LoaderFormats == {"yaml"}
GetLoader(format) == format \in LoaderFormats

MessageKey(typeName, fieldName) == <<typeName, ".", fieldName>>

\* What a loader returns for a path.
Load(path) ==
    CASE path = "fr.yaml" ->
           (MessageKey("Greeter", "Title") :> <<"Bienvenue">>)
        @@ (MessageKey("Greeter", "Hello") :> <<"Bonjour, ", "%v", "!">>)
        @@ (MessageKey("Common", "Bye") :> <<"Salut ", "%v", " et ", "%v">>)
      [] path = "de.yaml" ->
           (MessageKey("Common", "Title") :> <<"Gemeinsam">>)
        @@ (MessageKey("Common", "Bye") :> <<"Tschuess ", "%v">>)
        @@ (MessageKey("Bad", "Name") :> <<"Schlecht">>)
      [] OTHER -> <<>>

\* Types that implement resultFormatter, and the hook of the model's one.
ResultFormatters == {"Loud"}
ImplementsResultFormatter(typeName) == typeName \in ResultFormatters
G11nResult(formattedMessage) == <<"<<">> \o formattedMessage \o <<">>">>

\* Argument values: a string, and a struct whose type has G11nParam.
ArgValues ==
    { Str(<<"Sam">>),
      [type |-> "Money", v |-> <<"5">>] }
ParamFormatters == {"Money"}
ImplementsParamFormatter(val) == val.type \in ParamFormatters
G11nParam(val) == <<"$">> \o val.v

\* The declared record types: the fields of each, in declaration order.
\* kind "string": typ is the declared string type, tag the default pattern.
\* kind "func":   in the number of parameters, out the result types.
\* kind "ptr":    an anonymous field, elem the embedded record type.
StringField(name, typ, tag) ==
    [name |-> name, anonymous |-> FALSE, kind |-> "string", typ |-> typ,
     tag |-> tag, in |-> 0, out |-> <<>>, elem |-> ""]
FuncField(name, in, out, tag) ==
    [name |-> name, anonymous |-> FALSE, kind |-> "func", typ |-> "func",
     tag |-> tag, in |-> in, out |-> out, elem |-> ""]
Embedded(elem) ==
    [name |-> elem, anonymous |-> TRUE, kind |-> "ptr", typ |-> "ptr",
     tag |-> <<>>, in |-> 0, out |-> <<>>, elem |-> elem]

TypeNames == {"Greeter", "Common", "Bad", "Mute"}
Fields(typeName) ==
    CASE typeName = "Greeter" ->
           << StringField("Title", "string", <<"Welcome">>),
              FuncField("Hello", 1, <<"string">>, <<"Hello, ", "%v", "!">>),
              Embedded("Common") >>
      [] typeName = "Common" ->
           << StringField("Title", "Loud", <<"Shared">>),
              FuncField("Bye", 2, <<"Loud">>, <<"Bye ", "%v", " and ", "%v">>) >>
      [] typeName = "Bad" ->
           << StringField("Name", "string", <<"Named">>),
              Embedded("Common"),
              FuncField("Pair", 1, <<"string", "string">>, <<"Pair ", "%v">>),
              StringField("After", "string", <<"Later">>) >>
      [] typeName = "Mute" ->
           << FuncField("Say", 0, <<>>, <<"Said">>) >>

\* The record types a caller allocates itself.
CallerTypes == {"Greeter", "Bad", "Mute"}

FieldNames(typeName) == { Fields(typeName)[i].name : i \in 1..Len(Fields(typeName)) }
FieldOf(typeName, name) ==
    CHOOSE fd \in { Fields(typeName)[i] : i \in 1..Len(Fields(typeName)) } : fd.name = name

\* The zero value of a field: "" for a string, nil for a func or a pointer.
ZeroValue(fd) == IF fd.kind = "string" THEN <<>> ELSE Nil
ZeroRecord(typeName, owner) ==
    [type |-> typeName, owner |-> owner,
     f |-> [n \in FieldNames(typeName) |-> ZeroValue(FieldOf(typeName, n))]]

-----------------------------------------------------------------------------
\* The code of g11n.go as operators on a state record st:
\* [locales, dictionary, stringInitializers, handlers, heap, panic].

State ==
    [locales |-> locales, dictionary |-> dictionary,
     stringInitializers |-> stringInitializers, handlers |-> handlers,
     heap |-> heap, panic |-> NoPanic]

Lookup(dict, key, default) == IF key \in DOMAIN dict THEN dict[key] ELSE default

\* A formatParam that never asks for the hook.
formatParamIdentity(value) == value

\* formatParam: the hook's output when the value has the hook, else the value.
formatParam(value) ==
    IF ImplementsParamFormatter(value) THEN Str(G11nParam(value)) ELSE value

\* New.
New ==
    [locales |-> <<>>, dictionary |-> <<>>, stringInitializers |-> <<>>]

\* A SetLocale that keeps the entry a tag already has.
SetLocaleKeepFirst(st, tag, format, path) ==
    [st EXCEPT !.locales =
        [t \in (DOMAIN st.locales) \cup {tag} |->
            IF t \in DOMAIN st.locales THEN st.locales[t]
            ELSE [format |-> format, path |-> path]]]

\* SetLocale: mf.locales[tag] = localeInfo{format, path}.
SetLocaleCall(st, tag, format, path) ==
    [st EXCEPT !.locales =
        [t \in (DOMAIN st.locales) \cup {tag} |->
            IF t = tag THEN [format |-> format, path |-> path] ELSE st.locales[t]]]

\* SetLocales: SetLocale for every entry of the map (the tags are distinct,
\* so the iteration order of the map does not matter).
SetLocalesCall(st, paths, format) ==
    [st EXCEPT !.locales =
        [t \in (DOMAIN st.locales) \cup (DOMAIN paths) |->
            IF t \in DOMAIN paths
            THEN [format |-> format, path |-> paths[t]]
            ELSE st.locales[t]]]

\* Locales: the registered tags (a slice in map order, here a set).
LocalesCall(st) == DOMAIN st.locales

\* A refresh that keeps the field's value when the key is absent.
stringInitializerNoFallback(c, dict, h) ==
    [h EXCEPT ![c.inst].f[c.field] = Lookup(dict, c.messageKey, h[c.inst].f[c.field])]

\* A refresh that passes the value through the result hook of the field's type.
stringInitializerHooked(c, dict, h) ==
    LET value == Lookup(dict, c.messageKey, c.messagePattern) IN
    [h EXCEPT ![c.inst].f[c.field] =
        IF ImplementsResultFormatter(FieldOf(h[c.inst].type, c.field).typ)
        THEN G11nResult(value)
        ELSE value]

\* The closure appended by initializeField for a string field, run on heap h
\* with the factory's dictionary dict: it writes the dictionary entry of its
\* key, or its default pattern, into its field, without the result hook.
stringInitializer(c, dict, h) ==
    [h EXCEPT ![c.inst].f[c.field] = Lookup(dict, c.messageKey, c.messagePattern)]

RECURSIVE RunInitializers(_, _, _, _)
RunInitializers(inits, k, dict, h) ==
    IF k > Len(inits) THEN h
    ELSE RunInitializers(inits, k + 1, dict, stringInitializer(inits[k], dict, h))

\* A LoadLocale that runs the closures before it looks the tag up.
LoadLocaleRefreshFirst(st, tag) ==
    LET refreshed == RunInitializers(st.stringInitializers, 1, st.dictionary, st.heap) IN
    IF tag \notin DOMAIN st.locales
    THEN [st EXCEPT !.heap = refreshed,
                    !.panic = Sprintf(unknownLocaleTag, <<TagVal(tag)>>)]
    ELSE LET locale == st.locales[tag] IN
         IF ~GetLoader(locale.format)
         THEN [st EXCEPT !.panic = Sprintf(unknownFormatMessage, <<Str(<<locale.format>>)>>)]
         ELSE LET dict == Load(locale.path) IN
              [st EXCEPT !.dictionary = dict,
                         !.heap = RunInitializers(st.stringInitializers, 1, dict, st.heap)]

\* A LoadLocale that empties the dictionary before it resolves the loader.
LoadLocaleResetFirst(st, tag) ==
    IF tag \notin DOMAIN st.locales
    THEN [st EXCEPT !.panic = Sprintf(unknownLocaleTag, <<TagVal(tag)>>)]
    ELSE LET locale == st.locales[tag] IN
         IF ~GetLoader(locale.format)
         THEN [st EXCEPT !.dictionary = <<>>,
                         !.panic = Sprintf(unknownFormatMessage, <<Str(<<locale.format>>)>>)]
         ELSE LET dict == Load(locale.path) IN
              [st EXCEPT !.dictionary = dict,
                         !.heap = RunInitializers(st.stringInitializers, 1, dict, st.heap)]

\* A LoadLocale that forgets the closures once it has run them.
LoadLocaleDrain(st, tag) ==
    IF tag \notin DOMAIN st.locales
    THEN [st EXCEPT !.panic = Sprintf(unknownLocaleTag, <<TagVal(tag)>>)]
    ELSE LET locale == st.locales[tag] IN
         IF ~GetLoader(locale.format)
         THEN [st EXCEPT !.panic = Sprintf(unknownFormatMessage, <<Str(<<locale.format>>)>>)]
         ELSE LET dict == Load(locale.path) IN
              [st EXCEPT !.dictionary = dict,
                         !.heap = RunInitializers(st.stringInitializers, 1, dict, st.heap),
                         !.stringInitializers = <<>>]

\* LoadLocale.
LoadLocaleCall(st, tag) ==
    IF tag \notin DOMAIN st.locales
    THEN [st EXCEPT !.panic = Sprintf(unknownLocaleTag, <<TagVal(tag)>>)]
    ELSE LET locale == st.locales[tag] IN
         IF ~GetLoader(locale.format)
         THEN [st EXCEPT !.panic = Sprintf(unknownFormatMessage, <<Str(<<locale.format>>)>>)]
         ELSE LET dict == Load(locale.path) IN
              [st EXCEPT !.dictionary = dict,
                         !.heap = RunInitializers(st.stringInitializers, 1, dict, st.heap)]

\* A handler that formats its default pattern whatever the dictionary holds.
messageHandlerDefaultOnly(env, dict, args) ==
    LET formattedParams == [k \in 1..Len(args) |-> formatParam(args[k])]
        message == Sprintf(env.messagePattern, formattedParams)
        result == IF ImplementsResultFormatter(env.resultType)
                  THEN G11nResult(message)
                  ELSE message
    IN [env |-> env, params |-> formattedParams,
        result |-> [type |-> env.resultType, v |-> result]]

\* A handler that returns the formatted message without the result hook.
messageHandlerNoHook(env, dict, args) ==
    LET messagePattern == Lookup(dict, env.messageKey, env.messagePattern)
        formattedParams == [k \in 1..Len(args) |-> formatParam(args[k])]
    IN [env |-> [env EXCEPT !.messagePattern = messagePattern],
        params |-> formattedParams,
        result |-> [type |-> env.resultType, v |-> Sprintf(messagePattern, formattedParams)]]

\* The closure returned by messageHandler, called with args. env is the
\* closure's environment: messagePattern is the captured parameter, which the
\* closure assigns when the dictionary has the key.
\* Returns the environment after the call and the call's data.
messageHandler(env, dict, args) ==
    LET messagePattern == Lookup(dict, env.messageKey, env.messagePattern)
        formattedParams == [k \in 1..Len(args) |-> formatParam(args[k])]
        message == Sprintf(messagePattern, formattedParams)
        result == IF ImplementsResultFormatter(env.resultType)
                  THEN G11nResult(message)
                  ELSE message
    IN [env |-> [env EXCEPT !.messagePattern = messagePattern],
        params |-> formattedParams,
        result |-> [type |-> env.resultType, v |-> result]]

\* An initializeField that makes the key from the field's name alone.
initializeFieldByName(st, concreteType, field, ptr) ==
    LET messageKey == <<field.name>>
        messagePattern == field.tag
    IN IF field.kind = "string"
       THEN LET message == IF ImplementsResultFormatter(field.typ)
                           THEN G11nResult(messagePattern)
                           ELSE messagePattern
            IN [st EXCEPT
                  !.stringInitializers =
                      Append(@, [inst |-> ptr, field |-> field.name,
                                 messagePattern |-> messagePattern,
                                 messageKey |-> messageKey]),
                  !.heap[ptr].f[field.name] = message]
       ELSE IF Len(field.out) # 1
            THEN [st EXCEPT !.panic =
                     Sprintf(wrongResultsCountMessage, <<IntVal(Len(field.out))>>)]
            ELSE [st EXCEPT
                    !.handlers =
                        Append(@, [messagePattern |-> messagePattern,
                                   messageKey |-> messageKey,
                                   resultType |-> field.out[1]]),
                    !.heap[ptr].f[field.name] = Len(st.handlers) + 1]

\* An initializeField that gives a string field the dictionary's entry when
\* there is one.
initializeFieldLocalized(st, concreteType, field, ptr) ==
    LET messageKey == MessageKey(concreteType, field.name)
        messagePattern == field.tag
    IN IF field.kind = "string"
       THEN LET message == IF ImplementsResultFormatter(field.typ)
                           THEN G11nResult(messagePattern)
                           ELSE messagePattern
            IN [st EXCEPT
                  !.stringInitializers =
                      Append(@, [inst |-> ptr, field |-> field.name,
                                 messagePattern |-> messagePattern,
                                 messageKey |-> messageKey]),
                  !.heap[ptr].f[field.name] = Lookup(st.dictionary, messageKey, message)]
       ELSE IF Len(field.out) # 1
            THEN [st EXCEPT !.panic =
                     Sprintf(wrongResultsCountMessage, <<IntVal(Len(field.out))>>)]
            ELSE [st EXCEPT
                    !.handlers =
                        Append(@, [messagePattern |-> messagePattern,
                                   messageKey |-> messageKey,
                                   resultType |-> field.out[1]]),
                    !.heap[ptr].f[field.name] = Len(st.handlers) + 1]

\* An initializeField that adds no closure for a string field that already
\* holds a value.
initializeFieldOnce(st, concreteType, field, ptr) ==
    LET messageKey == MessageKey(concreteType, field.name)
        messagePattern == field.tag
    IN IF field.kind = "string"
       THEN LET message == IF ImplementsResultFormatter(field.typ)
                           THEN G11nResult(messagePattern)
                           ELSE messagePattern
            IN [st EXCEPT
                  !.stringInitializers =
                      IF st.heap[ptr].f[field.name] # <<>> THEN @
                      ELSE Append(@, [inst |-> ptr, field |-> field.name,
                                      messagePattern |-> messagePattern,
                                      messageKey |-> messageKey]),
                  !.heap[ptr].f[field.name] = message]
       ELSE IF Len(field.out) # 1
            THEN [st EXCEPT !.panic =
                     Sprintf(wrongResultsCountMessage, <<IntVal(Len(field.out))>>)]
            ELSE [st EXCEPT
                    !.handlers =
                        Append(@, [messagePattern |-> messagePattern,
                                   messageKey |-> messageKey,
                                   resultType |-> field.out[1]]),
                    !.heap[ptr].f[field.name] = Len(st.handlers) + 1]

\* An initializeField that only refuses a func field without results.
initializeFieldAtLeastOne(st, concreteType, field, ptr) ==
    LET messageKey == MessageKey(concreteType, field.name)
        messagePattern == field.tag
    IN IF field.kind = "string"
       THEN LET message == IF ImplementsResultFormatter(field.typ)
                           THEN G11nResult(messagePattern)
                           ELSE messagePattern
            IN [st EXCEPT
                  !.stringInitializers =
                      Append(@, [inst |-> ptr, field |-> field.name,
                                 messagePattern |-> messagePattern,
                                 messageKey |-> messageKey]),
                  !.heap[ptr].f[field.name] = message]
       ELSE IF Len(field.out) < 1
            THEN [st EXCEPT !.panic =
                     Sprintf(wrongResultsCountMessage, <<IntVal(Len(field.out))>>)]
            ELSE [st EXCEPT
                    !.handlers =
                        Append(@, [messagePattern |-> messagePattern,
                                   messageKey |-> messageKey,
                                   resultType |-> field.out[1]]),
                    !.heap[ptr].f[field.name] = Len(st.handlers) + 1]

\* initializeField.
initializeField(st, concreteType, field, ptr) ==
    LET messageKey == MessageKey(concreteType, field.name)
        messagePattern == field.tag
    IN IF field.kind = "string"
       THEN LET message == IF ImplementsResultFormatter(field.typ)
                           THEN G11nResult(messagePattern)
                           ELSE messagePattern
            IN [st EXCEPT
                  !.stringInitializers =
                      Append(@, [inst |-> ptr, field |-> field.name,
                                 messagePattern |-> messagePattern,
                                 messageKey |-> messageKey]),
                  !.heap[ptr].f[field.name] = message]
       ELSE IF Len(field.out) # 1
            THEN [st EXCEPT !.panic =
                     Sprintf(wrongResultsCountMessage, <<IntVal(Len(field.out))>>)]
            ELSE [st EXCEPT
                    !.handlers =
                        Append(@, [messagePattern |-> messagePattern,
                                   messageKey |-> messageKey,
                                   resultType |-> field.out[1]]),
                    !.heap[ptr].f[field.name] = Len(st.handlers) + 1]

RECURSIVE initializeStruct(_, _)
RECURSIVE initializeFields(_, _, _)

\* An initializeEmbeddedStruct that does not set the new instance into the parent.
initializeEmbeddedStructUnset(st, field, ptr) ==
    initializeStruct(
        [st EXCEPT !.heap = Append(@, ZeroRecord(field.elem, "Init"))],
        Len(st.heap) + 1)

\* An initializeEmbeddedStruct that initializes the instance the field
\* already points to, when it points to one.
initializeEmbeddedStructReuse(st, field, ptr) ==
    IF st.heap[ptr].f[field.name] # Nil
    THEN initializeStruct(st, st.heap[ptr].f[field.name])
    ELSE initializeStruct(
            [st EXCEPT !.heap = [Append(@, ZeroRecord(field.elem, "Init"))
                                   EXCEPT ![ptr].f[field.name] = Len(st.heap) + 1]],
            Len(st.heap) + 1)

\* initializeEmbeddedStruct: a new instance of the embedded type is set into
\* the parent's field and initialized.
initializeEmbeddedStruct(st, field, ptr) ==
    LET embeddedStruct == Len(st.heap) + 1
    IN initializeStruct(
          [st EXCEPT !.heap = [Append(@, ZeroRecord(field.elem, "Init"))
                                 EXCEPT ![ptr].f[field.name] = embeddedStruct]],
          embeddedStruct)

\* The loop of initializeStruct from field i on; a panic ends it.
initializeFields(st, ptr, i) ==
    LET concreteType == st.heap[ptr].type IN
    IF st.panic # NoPanic \/ i > Len(Fields(concreteType)) THEN st
    ELSE LET field == Fields(concreteType)[i] IN
         initializeFields(
            IF field.anonymous
            THEN initializeEmbeddedStruct(st, field, ptr)
            ELSE initializeField(st, concreteType, field, ptr),
            ptr, i + 1)

initializeStruct(st, ptr) == initializeFields(st, ptr, 1)

\* An Init that undoes what it did when a field makes it panic.
InitCallAtomic(st, structPtr) ==
    LET done == initializeStruct(st, structPtr) IN
    IF done.panic # NoPanic THEN [st EXCEPT !.panic = done.panic] ELSE done

\* Init.
InitCall(st, structPtr) == initializeStruct(st, structPtr)

-----------------------------------------------------------------------------
\* The state machine.

NoOp ==
    [op |-> "New", panic |-> NoPanic, tag |-> "", ptr |-> Nil, field |-> "",
     args |-> <<>>, params |-> <<>>, result |-> <<>>]

\* No LoadLocale is under way.
Idle == [phase |-> "idle", tag |-> "", k |-> 0, old |-> <<>>]

Init ==
    /\ locales = New.locales
    /\ dictionary = New.dictionary
    /\ stringInitializers = New.stringInitializers
    /\ handlers = <<>>
    /\ heap = <<>>
    /\ last = NoOp
    /\ loaded = FALSE
    /\ loading = Idle

Commit(st, op) ==
    /\ locales' = st.locales
    /\ dictionary' = st.dictionary
    /\ stringInitializers' = st.stringInitializers
    /\ handlers' = st.handlers
    /\ heap' = st.heap
    /\ last' = [op EXCEPT !.panic = st.panic]
    /\ loaded' = (loaded \/ (op.op = "LoadLocale" /\ st.panic = NoPanic))
    /\ UNCHANGED loading

SetLocale(tag, format, path) ==
    Commit(SetLocaleCall(State, tag, format, path),
           [NoOp EXCEPT !.op = "SetLocale", !.tag = tag, !.args = <<format, path>>])

SetLocales(paths, format) ==
    Commit(SetLocalesCall(State, paths, format),
           [NoOp EXCEPT !.op = "SetLocales", !.args = <<paths, format>>])

Locales ==
    Commit(State, [NoOp EXCEPT !.op = "Locales", !.result = LocalesCall(State)])

LoadLocale(tag) ==
    Commit(LoadLocaleCall(State, tag),
           [NoOp EXCEPT !.op = "LoadLocale", !.tag = tag])

\* The records the caller allocated; the caller passes these to Init.
CallerRecords == { i \in 1..Len(heap) : heap[i].owner = "caller" }

\* The caller allocates a zero record: &T{}.
NewRecord(typeName) ==
    /\ Cardinality(CallerRecords) < MaxRecords
    /\ heap' = Append(heap, ZeroRecord(typeName, "caller"))
    /\ last' = [NoOp EXCEPT !.op = "NewRecord"]
    /\ UNCHANGED <<locales, dictionary, stringInitializers, handlers, loaded, loading>>

InitRecord(structPtr) ==
    LET st == InitCall(State, structPtr) IN
    /\ Len(st.stringInitializers) <= MaxInitializers
    /\ Commit(st, [NoOp EXCEPT !.op = "Init", !.ptr = structPtr])

\* A call of the func field of an initialized record.
Invoke(ptr, name, args) ==
    /\ heap[ptr].f[name] # Nil
    /\ LET h == heap[ptr].f[name]
           call == messageHandler(handlers[h], dictionary, args)
       IN /\ handlers' = [handlers EXCEPT ![h] = call.env]
          /\ last' = [NoOp EXCEPT !.op = "Invoke", !.ptr = ptr, !.field = name,
                                  !.args = args, !.params = call.params,
                                  !.result = call.result]
    /\ UNCHANGED <<locales, dictionary, stringInitializers, heap, loaded, loading>>

FuncFields(typeName) ==
    { n \in FieldNames(typeName) : FieldOf(typeName, n).kind = "func" }
ArgLists(n) == { args \in [1..n -> ArgValues] : n > 1 => args[1] # args[2] }

Next ==
    \/ \E r \in Registrations : SetLocale(r[1], r[2], r[3])
    \/ \E b \in BulkRegistrations : SetLocales(b[1], b[2])
    \/ Locales
    \/ \E tag \in LoadTags : LoadLocale(tag)
    \/ \E typeName \in CallerTypes : NewRecord(typeName)
    \/ \E structPtr \in CallerRecords : InitRecord(structPtr)
    \/ \E ptr \in 1..Len(heap) :
          \E name \in FuncFields(heap[ptr].type) :
             \E args \in ArgLists(FieldOf(heap[ptr].type, name).in) :
                Invoke(ptr, name, args)

Spec == Init /\ [][Next]_vars

-----------------------------------------------------------------------------
\* LoadLocale statement by statement, with calls of func fields from another
\* goroutine in between (no lock). The handler reads mf.dictionary once, and
\* LoadLocale writes it once, a single word: the read sees the map assigned
\* before or after, and a loader's map is not written after it is returned.

\* The lookups of LoadLocale that can panic.
LoadLocaleCheck(st, tag) ==
    IF tag \notin DOMAIN st.locales
    THEN Sprintf(unknownLocaleTag, <<TagVal(tag)>>)
    ELSE IF ~GetLoader(st.locales[tag].format)
         THEN Sprintf(unknownFormatMessage, <<Str(<<st.locales[tag].format>>)>>)
         ELSE NoPanic

\* An assignment that writes the new entries into the map in use.
assignDictionaryInPlace(st, dict) ==
    [st EXCEPT !.dictionary =
        [key \in (DOMAIN dict) \cup (DOMAIN st.dictionary) |->
            IF key \in DOMAIN dict THEN dict[key] ELSE st.dictionary[key]]]

\* mf.dictionary = loader.Load(locale.path): the map reference is replaced.
assignDictionary(st, dict) == [st EXCEPT !.dictionary = dict]

\* A LoadLocale that runs the closures first and assigns the dictionary last.
LoadLocaleStepRefreshFirst(st, pc) ==
    IF pc.phase = "load"
    THEN [st |-> st, pc |-> [pc EXCEPT !.phase = "refresh", !.k = 1]]
    ELSE IF pc.k <= Len(st.stringInitializers)
         THEN [st |-> [st EXCEPT !.heap =
                          stringInitializer(st.stringInitializers[pc.k], st.dictionary, @)],
               pc |-> [pc EXCEPT !.k = @ + 1]]
         ELSE [st |-> assignDictionary(st, Load(st.locales[pc.tag].path)),
               pc |-> [pc EXCEPT !.phase = "return"]]

\* The next statement of a LoadLocale at position pc: the assignment of the
\* dictionary, then one closure of the loop after the other, then the return.
LoadLocaleStep(st, pc) ==
    IF pc.phase = "load"
    THEN [st |-> assignDictionary(st, Load(st.locales[pc.tag].path)),
          pc |-> [pc EXCEPT !.phase = "refresh", !.k = 1]]
    ELSE IF pc.k <= Len(st.stringInitializers)
         THEN [st |-> [st EXCEPT !.heap =
                          stringInitializer(st.stringInitializers[pc.k], st.dictionary, @)],
               pc |-> [pc EXCEPT !.k = @ + 1]]
         ELSE [st |-> st, pc |-> [pc EXCEPT !.phase = "return"]]

\* LoadLocale is called: it panics, or its loader starts to read the file.
StartLoad(tag) ==
    /\ loading = Idle
    /\ IF LoadLocaleCheck(State, tag) # NoPanic
       THEN Commit([State EXCEPT !.panic = LoadLocaleCheck(State, tag)],
                   [NoOp EXCEPT !.op = "LoadLocale", !.tag = tag])
       ELSE /\ loading' = [phase |-> "load", tag |-> tag, k |-> 0, old |-> dictionary]
            /\ last' = [NoOp EXCEPT !.op = "StartLoad", !.tag = tag]
            /\ UNCHANGED <<locales, dictionary, stringInitializers, handlers, heap,
                           loaded>>

\* The LoadLocale under way executes its next statement, or returns.
StepLoad ==
    /\ loading # Idle
    /\ LET r == LoadLocaleStep(State, loading) IN
       /\ dictionary' = r.st.dictionary
       /\ heap' = r.st.heap
       /\ IF r.pc.phase = "return"
          THEN /\ loading' = Idle
               /\ loaded' = TRUE
               /\ last' = [NoOp EXCEPT !.op = "LoadLocale", !.tag = loading.tag]
          ELSE /\ loading' = r.pc
               /\ loaded' = loaded
               /\ last' = [NoOp EXCEPT !.op = "StepLoad", !.tag = loading.tag]
    /\ UNCHANGED <<locales, stringInitializers, handlers>>

StepNext ==
    \/ \E b \in BulkRegistrations : loading = Idle /\ SetLocales(b[1], b[2])
    \/ \E typeName \in CallerTypes : loading = Idle /\ NewRecord(typeName)
    \/ \E structPtr \in CallerRecords : loading = Idle /\ InitRecord(structPtr)
    \/ \E tag \in LoadTags : StartLoad(tag)
    \/ StepLoad
    \/ \E ptr \in 1..Len(heap) :
          \E name \in FuncFields(heap[ptr].type) :
             \E args \in ArgLists(FieldOf(heap[ptr].type, name).in) :
                Invoke(ptr, name, args)

SpecSteps == Init /\ [][StepNext]_vars

-----------------------------------------------------------------------------
\* What the claims speak about.

\* The last operation was a LoadLocale that returned.
LoadedOK == last.op = "LoadLocale" /\ last.panic = NoPanic

\* The string fields the factory has initialized: <<instance, field name>>.
InitializedStringFields ==
    { <<stringInitializers[k].inst, stringInitializers[k].field>> :
        k \in 1..Len(stringInitializers) }

\* The func fields the factory has wired: <<instance, field name>>.
WiredFuncFields ==
    { <<i, n>> \in UNION { {i} \X FuncFields(heap[i].type) : i \in 1..Len(heap) } :
        heap[i].f[n] # Nil }

\* The key and the declared default pattern of a field of an instance.
KeyOf(i, n) == MessageKey(heap[i].type, n)
DefaultOf(i, n) == FieldOf(heap[i].type, n).tag

\* The arguments as the pattern is to receive them (4.4 b of the design).
ExpectedParams(args) ==
    [k \in 1..Len(args) |->
        IF args[k].type \in ParamFormatters THEN Str(G11nParam(args[k])) ELSE args[k]]

\* The output of a func field with result type R for a pattern (4.4 c, d).
ExpectedOutput(pattern, args, R) ==
    IF R \in ResultFormatters
    THEN G11nResult(Sprintf(pattern, ExpectedParams(args)))
    ELSE Sprintf(pattern, ExpectedParams(args))

ResultTypeOf(i, n) == FieldOf(heap[i].type, n).out[1]

-----------------------------------------------------------------------------
\* C1: immediately after LoadLocale(L) returns, every string field the factory
\* has initialized holds L's dictionary entry for TypeName.FieldName when L's
\* dictionary has that key, and the field's declared default pattern otherwise.
C1_StringFieldsFollowLoadedLocale ==
    LoadedOK =>
        LET D == Load(locales[last.tag].path) IN
        \A x \in InitializedStringFields :
            heap[x[1]].f[x[2]] =
                IF KeyOf(x[1], x[2]) \in DOMAIN D
                THEN D[KeyOf(x[1], x[2])]
                ELSE DefaultOf(x[1], x[2])

\* C1 witness: a LoadLocale has returned with one initialized field whose key
\* the locale has and one whose key only another locale has, which holds its
\* default.
C1_Witness ==
    /\ LoadedOK
    /\ last.tag = "de"
    /\ dictionary = Load("de.yaml")
    /\ \E x, y \in InitializedStringFields :
          /\ KeyOf(x[1], x[2]) \in DOMAIN dictionary
          /\ KeyOf(y[1], y[2]) \notin DOMAIN dictionary
          /\ KeyOf(y[1], y[2]) \in DOMAIN Load("fr.yaml")
          /\ heap[y[1]].f[y[2]] = DefaultOf(y[1], y[2])

\* C2: a func field invoked before any locale has been loaded returns the
\* output formatted from its default pattern; invoked after a LoadLocale whose
\* dictionary has the field's key it returns the output formatted from that
\* dictionary's pattern, with the handler Init made.
C2_InvokeBeforeAndAfterLoad ==
    last.op = "Invoke" =>
        LET i == last.ptr
            n == last.field
        IN /\ ~loaded =>
                last.result.v = ExpectedOutput(DefaultOf(i, n), last.args, ResultTypeOf(i, n))
           /\ (loaded /\ KeyOf(i, n) \in DOMAIN dictionary) =>
                last.result.v =
                    ExpectedOutput(dictionary[KeyOf(i, n)], last.args, ResultTypeOf(i, n))

\* C2 witness: Hello("Sam") of a record initialized before the load of a locale
\* that has Greeter.Hello returns "Bonjour, Sam!".
C2_Witness ==
    /\ last.op = "Invoke"
    /\ loaded
    /\ last.field = "Hello"
    /\ last.args = <<Str(<<"Sam">>)>>
    /\ heap[last.ptr].f["Title"] = <<"Bienvenue">>
    /\ last.result.v = <<"Bonjour, ", "Sam", "!">>

\* C3: on every invocation of a func field the pattern is the active
\* dictionary's entry for the field's key when present and otherwise the
\* default pattern fixed at construction, whatever was loaded or invoked
\* before.
C3_PatternIsCurrentEntryOrDefault ==
    last.op = "Invoke" =>
        last.result.v =
            ExpectedOutput(
                Lookup(dictionary, KeyOf(last.ptr, last.field),
                       DefaultOf(last.ptr, last.field)),
                last.args, ResultTypeOf(last.ptr, last.field))

\* A field holds a value a refresh would change: a refresh is observable.
SomeFieldIsStale ==
    \E k \in 1..Len(stringInitializers) :
        LET c == stringInitializers[k] IN
        heap[c.inst].f[c.field] # Lookup(dictionary, c.messageKey, c.messagePattern)

\* C4: LoadLocale of an unregistered tag panics with the unknown-locale
\* message naming the tag, and the step changes nothing: the dictionary, the
\* closure sequence, the registry, the handlers and every field are as before
\* (so no closure has run).
C4_UnknownLocaleMutatesNothing ==
    [][(last'.op = "LoadLocale" /\ last'.tag \notin DOMAIN locales) =>
          /\ last'.panic = <<"Unknown locale '", last'.tag, "'.">>
          /\ dictionary' = dictionary
          /\ stringInitializers' = stringInitializers
          /\ heap' = heap
          /\ handlers' = handlers
          /\ locales' = locales]_vars

\* C4 witness: LoadLocale("en") has panicked in a state with a loaded
\* dictionary and a field that a refresh would have rewritten.
C4_Witness ==
    /\ last.op = "LoadLocale"
    /\ last.tag \notin DOMAIN locales
    /\ last.panic = <<"Unknown locale '", "en", "'.">>
    /\ loaded
    /\ SomeFieldIsStale

\* C5: LoadLocale of a registered tag whose format has no loader panics with
\* the unknown-format message naming the format, before the dictionary is
\* replaced and before any closure runs: dictionary and fields are as before.
C5_UnknownFormatKeepsDictionary ==
    [][(/\ last'.op = "LoadLocale"
        /\ last'.tag \in DOMAIN locales
        /\ locales[last'.tag].format \notin LoaderFormats) =>
          /\ last'.panic = <<"Unknown locale format '", locales[last'.tag].format, "'.">>
          /\ dictionary' = dictionary
          /\ heap' = heap
          /\ stringInitializers' = stringInitializers]_vars

\* C5 witness: LoadLocale of a tag registered as xml has panicked in a state
\* with a loaded dictionary and a field that a refresh would have rewritten.
C5_Witness ==
    /\ last.op = "LoadLocale"
    /\ last.tag \in DOMAIN locales
    /\ locales[last.tag].format = "xml"
    /\ last.panic = <<"Unknown locale format '", "xml", "'.">>
    /\ loaded
    /\ dictionary # <<>>
    /\ SomeFieldIsStale

\* C6: the active dictionary starts empty and after a LoadLocale is exactly
\* what the loader returned for that locale; no entry of an earlier locale
\* that the current dictionary lacks is visible to a string field or to a
\* func field (the pattern a call would use now is the current entry or the
\* declared default).
C6_DictionaryReplacedWholesale ==
    /\ ~loaded => dictionary = <<>>
    /\ LoadedOK => dictionary = Load(locales[last.tag].path)
    /\ \A x \in InitializedStringFields :
          heap[x[1]].f[x[2]] \in
              { Lookup(dictionary, KeyOf(x[1], x[2]), DefaultOf(x[1], x[2])),
                DefaultOf(x[1], x[2]),
                G11nResult(DefaultOf(x[1], x[2])) }
    /\ \A x \in WiredFuncFields :
          Lookup(dictionary, KeyOf(x[1], x[2]), handlers[heap[x[1]].f[x[2]]].messagePattern)
            = Lookup(dictionary, KeyOf(x[1], x[2]), DefaultOf(x[1], x[2]))

\* The string fields whose declared type has the result hook.
HookedStringFields ==
    { x \in InitializedStringFields :
        FieldOf(heap[x[1]].type, x[2]).typ \in ResultFormatters }

\* The instances the last Init walked: the record and its embedded records.
InstancesOfLastInit ==
    {last.ptr} \cup
    { heap[last.ptr].f[n] : n \in { m \in FieldNames(heap[last.ptr].type) :
                                      FieldOf(heap[last.ptr].type, m).anonymous } }

\* C7: a string field whose type has the result hook holds the hook applied to
\* its default pattern from Init on, and from the next LoadLocale on the raw
\* dictionary entry or the raw default pattern: no refresh applies the hook.
C7_StringHookOnlyAtInit ==
    \A x \in HookedStringFields :
        LET value == heap[x[1]].f[x[2]]
            raw == Lookup(dictionary, KeyOf(x[1], x[2]), DefaultOf(x[1], x[2]))
        IN /\ value \in {G11nResult(DefaultOf(x[1], x[2])), raw}
           /\ LoadedOK => value = raw
           /\ (last.op = "Init" /\ x[1] \in InstancesOfLastInit) =>
                 value = G11nResult(DefaultOf(x[1], x[2]))

\* C7 witness: after a second Init the new Common.Title holds the hooked
\* default while the Common.Title of the first Init, refreshed by a load in
\* between, holds the raw dictionary entry.
C7_Witness ==
    /\ last.op = "Init"
    /\ \E x, y \in HookedStringFields :
          /\ x[1] \in InstancesOfLastInit
          /\ heap[x[1]].f[x[2]] = <<"<<", "Shared", ">>">>
          /\ y[1] \notin InstancesOfLastInit
          /\ heap[y[1]].f[y[2]] = <<"Gemeinsam">>

\* The files a locale can be registered with, and the patterns a key can have.
LocaleFiles == {"fr.yaml", "de.yaml"}
PatternsOf(i, n) ==
    {DefaultOf(i, n)} \cup
    { Load(path)[KeyOf(i, n)] : path \in { q \in LocaleFiles : KeyOf(i, n) \in DOMAIN Load(q) } }

\* C8: every invocation of a func field whose result type has the result hook
\* returns, as a value of the result type, the hook applied to the message
\* formatted from the default or a dictionary's pattern; a func field whose
\* result type has no hook returns the formatted message itself.
C8_ResultHookOnEveryInvocation ==
    last.op = "Invoke" =>
        LET R == ResultTypeOf(last.ptr, last.field)
            messages == { Sprintf(p, last.params) : p \in PatternsOf(last.ptr, last.field) }
        IN /\ last.result.type = R
           /\ R \in ResultFormatters =>
                 last.result.v \in { G11nResult(m) : m \in messages }
           /\ R \notin ResultFormatters => last.result.v \in messages

\* C8 witness: Bye, whose result type Loud has the hook, was called under a
\* loaded dictionary that has Common.Bye.
C8_Witness ==
    /\ last.op = "Invoke"
    /\ last.field = "Bye"
    /\ loaded
    /\ KeyOf(last.ptr, last.field) \in DOMAIN dictionary
    /\ last.args = <<Str(<<"Sam">>), [type |-> "Money", v |-> <<"5">>]>>
    /\ last.result =
         [type |-> "Loud", v |-> <<"<<", "Salut ", "Sam", " et ", "$", "5", ">>">>]

\* C9: in a call of a func field every argument whose value has the parameter
\* hook reaches the pattern as the hook's output, every other argument as
\* itself, each at its own position.
C9_ParamHookSubstituted ==
    last.op = "Invoke" =>
        /\ Len(last.params) = Len(last.args)
        /\ \A k \in 1..Len(last.args) :
              last.params[k] =
                  IF last.args[k].type \in ParamFormatters
                  THEN Str(G11nParam(last.args[k]))
                  ELSE last.args[k]
        /\ last.result.v \in
              { ExpectedOutput(p, last.args, ResultTypeOf(last.ptr, last.field)) :
                  p \in PatternsOf(last.ptr, last.field) }

\* C9 witness: Bye(Money 5, "Sam") under the default pattern prints the hook's
\* "$5" first and "Sam" second.
C9_Witness ==
    /\ last.op = "Invoke"
    /\ last.field = "Bye"
    /\ last.args = <<[type |-> "Money", v |-> <<"5">>], Str(<<"Sam">>)>>
    /\ last.result.v = <<"<<", "Bye ", "$", "5", " and ", "Sam", ">>">>

\* The anonymous fields, string fields and func fields of a record type.
AnonymousFields(typeName) ==
    { n \in FieldNames(typeName) : FieldOf(typeName, n).anonymous }
StringFields(typeName) ==
    { n \in FieldNames(typeName) : FieldOf(typeName, n).kind = "string" }

\* C10: an Init that returns leaves in every anonymous field of the record a
\* new instance of the embedded type, whose string fields each got a closure
\* of this Init and whose func fields each got a handler of this Init, keyed
\* by the embedded type's name and the field's name; and after a LoadLocale
\* the string fields of an embedded record hold the entry of that key or
\* their default.
C10_EmbeddedRecordWired ==
    /\ [][(last'.op = "Init" /\ last'.panic = NoPanic) =>
            \A a \in AnonymousFields(heap'[last'.ptr].type) :
                LET e == heap'[last'.ptr].f[a]
                    E == FieldOf(heap'[last'.ptr].type, a).elem
                IN /\ e \in (Len(heap) + 1)..Len(heap')
                   /\ heap'[e].type = E
                   /\ \A n \in StringFields(E) :
                         /\ heap'[e].f[n] # <<>>
                         /\ \E k \in (Len(stringInitializers) + 1)..Len(stringInitializers') :
                               /\ stringInitializers'[k].inst = e
                               /\ stringInitializers'[k].field = n
                               /\ stringInitializers'[k].messageKey = <<E, ".", n>>
                   /\ \A n \in FuncFields(E) :
                         /\ heap'[e].f[n] \in (Len(handlers) + 1)..Len(handlers')
                         /\ handlers'[heap'[e].f[n]].messageKey = <<E, ".", n>>]_vars
    /\ [](LoadedOK =>
            \A i \in 1..Len(heap) :
                \A a \in AnonymousFields(heap[i].type) :
                    heap[i].f[a] # Nil =>
                        LET e == heap[i].f[a] IN
                        \A n \in StringFields(heap[e].type) :
                            heap[e].f[n] =
                                Lookup(dictionary, <<heap[e].type, ".", n>>,
                                       FieldOf(heap[e].type, n).tag))

\* C10 witness: Init of a Greeter has returned, its Common is set, and a later
\* LoadLocale has localized Common.Title.
C10_Witness ==
    /\ LoadedOK
    /\ \E i \in 1..Len(heap) :
          /\ heap[i].type = "Greeter"
          /\ heap[i].f["Common"] # Nil
          /\ heap[heap[i].f["Common"]].type = "Common"
          /\ heap[heap[i].f["Common"]].f["Title"] = <<"Gemeinsam">>
          /\ heap[heap[i].f["Common"]].f["Bye"] # Nil

-----------------------------------------------------------------------------
\* The number of results of the first func field, in the order Init walks a
\* record type (embedded types included), that does not declare exactly one
\* result; -1 when every func field declares one.
RECURSIVE FirstFaultFrom(_, _)
FirstFaultFrom(typeName, i) ==
    IF i > Len(Fields(typeName)) THEN -1
    ELSE LET fd == Fields(typeName)[i] IN
         IF fd.anonymous /\ FirstFaultFrom(fd.elem, 1) # -1
         THEN FirstFaultFrom(fd.elem, 1)
         ELSE IF fd.kind = "func" /\ Len(fd.out) # 1
              THEN Len(fd.out)
              ELSE FirstFaultFrom(typeName, i + 1)
FirstFault(typeName) == FirstFaultFrom(typeName, 1)

CountText(n) == CASE n = 0 -> "0" [] n = 2 -> "2" [] OTHER -> "?"

\* C11: Init of a record with a func field that declares zero or two results
\* panics with the wrong-arity message naming that number; Init of a record
\* whose func fields all declare one result does not panic.
C11_WrongArityPanics ==
    last.op = "Init" =>
        LET n == FirstFault(heap[last.ptr].type) IN
        IF n = -1
        THEN last.panic = NoPanic
        ELSE last.panic =
               <<"Wrong number of results in a g11n message. Expected 1, got ",
                 CountText(n), ".">>

\* C11 witness: Init of a Bad, whose Pair declares two results, has panicked
\* naming 2.
C11_Witness ==
    /\ last.op = "Init"
    /\ heap[last.ptr].type = "Bad"
    /\ last.panic =
         <<"Wrong number of results in a g11n message. Expected 1, got ", "2", ".">>

-----------------------------------------------------------------------------
\* A statement of the LoadLocale under way has been executed in this step.
LoadStatement == loading # Idle /\ loading' # loading

\* The closure the loop of the LoadLocale under way is to run next.
NextClosure == stringInitializers[loading.k]

\* C12: inside a LoadLocale that passes its lookups, the dictionary is
\* replaced by the loader's result before any closure runs (that statement
\* writes no field); then the closures run one per statement in the order they
\* were created, each writing into its field the entry of the dictionary this
\* load assigned (or its default pattern), the dictionary and the sequence of
\* closures staying as they are; and the load returns only after the last
\* closure, so that on return every closure has run exactly once.
C12_DictionaryThenClosuresInOrder ==
    /\ [][LoadStatement =>
            LET new == Load(locales[loading.tag].path) IN
            /\ stringInitializers' = stringInitializers
            /\ loading.phase = "load" =>
                  /\ dictionary' = new
                  /\ heap' = heap
                  /\ loading'.phase = "refresh" /\ loading'.k = 1
            /\ (loading.phase = "refresh" /\ loading.k <= Len(stringInitializers)) =>
                  /\ dictionary = new /\ dictionary' = new
                  /\ heap' = [heap EXCEPT ![NextClosure.inst].f[NextClosure.field] =
                                  Lookup(new, NextClosure.messageKey,
                                         NextClosure.messagePattern)]
                  /\ loading'.phase = "refresh" /\ loading'.k = loading.k + 1
            /\ (loading.phase = "refresh" /\ loading.k > Len(stringInitializers)) =>
                  /\ loading.k = Len(stringInitializers) + 1
                  /\ dictionary' = dictionary /\ heap' = heap
                  /\ loading' = Idle /\ last'.op = "LoadLocale"]_vars
    /\ []((last.op = "LoadLocale" /\ last.panic = NoPanic) =>
            /\ dictionary = Load(locales[last.tag].path)
            /\ \A k \in 1..Len(stringInitializers) :
                  heap[stringInitializers[k].inst].f[stringInitializers[k].field] =
                      Lookup(dictionary, stringInitializers[k].messageKey,
                             stringInitializers[k].messagePattern))

\* C12 witness: a LoadLocale("de") that replaces the French dictionary has run
\* its first closure and is about to run its second: the first closure's
\* field holds its default again (the German file has no Greeter.Title), the
\* second closure's field still what the French load wrote (the default
\* without the hook), not yet the German entry.
C12_Witness ==
    /\ loading.phase = "refresh" /\ loading.tag = "de" /\ loading.k = 2
    /\ loading.old = Load("fr.yaml")
    /\ dictionary = Load("de.yaml")
    /\ Len(stringInitializers) >= 2
    /\ stringInitializers[1].messageKey = <<"Greeter", ".", "Title">>
    /\ heap[stringInitializers[1].inst].f["Title"] = <<"Welcome">>
    /\ stringInitializers[2].messageKey = <<"Common", ".", "Title">>
    /\ heap[stringInitializers[2].inst].f["Title"] = <<"Shared">>

-----------------------------------------------------------------------------
\* The keys of the string fields Init reaches in a record type, in the order it
\* walks the fields (embedded types included), up to the first func field that
\* does not declare exactly one result (stop).
RECURSIVE WalkFrom(_, _)
WalkFrom(typeName, i) ==
    IF i > Len(Fields(typeName)) THEN [keys |-> <<>>, stop |-> FALSE]
    ELSE LET fd == Fields(typeName)[i]
             here == IF fd.anonymous THEN WalkFrom(fd.elem, 1)
                     ELSE IF fd.kind = "string"
                          THEN [keys |-> <<MessageKey(typeName, fd.name)>>, stop |-> FALSE]
                          ELSE [keys |-> <<>>, stop |-> Len(fd.out) # 1]
         IN IF here.stop THEN here
            ELSE [keys |-> here.keys \o WalkFrom(typeName, i + 1).keys,
                  stop |-> WalkFrom(typeName, i + 1).stop]
Walk(typeName) == WalkFrom(typeName, 1)

\* C13: the sequence of closures is empty in a new factory; every step keeps
\* the closures it had, in place, as a prefix (none is removed, replaced or
\* reordered); a step that is not an Init leaves the sequence as it is; and an
\* Init appends exactly one closure for each string field it initializes, in
\* the order it reaches them, and none for a func field.
C13_ClosuresOnlyGrow ==
    /\ stringInitializers = <<>>
    /\ [][/\ Len(stringInitializers') >= Len(stringInitializers)
          /\ SubSeq(stringInitializers', 1, Len(stringInitializers)) = stringInitializers
          /\ last'.op # "Init" => stringInitializers' = stringInitializers
          /\ last'.op = "Init" =>
                [k \in 1..(Len(stringInitializers') - Len(stringInitializers)) |->
                    stringInitializers'[Len(stringInitializers) + k].messageKey]
                = Walk(heap[last'.ptr].type).keys]_vars

\* C13 witness: a second Init of a Greeter has returned after a LoadLocale:
\* the two closures of the first Init are still there and two were added,
\* while the Greeter's two func fields (Hello and its Common's Bye) are wired.
C13_Witness ==
    /\ last.op = "Init" /\ last.panic = NoPanic
    /\ loaded
    /\ heap[last.ptr].type = "Greeter"
    /\ Len(stringInitializers) = 4
    /\ stringInitializers[1].messageKey = stringInitializers[3].messageKey
    /\ stringInitializers[2].messageKey = stringInitializers[4].messageKey
    /\ heap[last.ptr].f["Hello"] # Nil
    /\ heap[heap[last.ptr].f["Common"]].f["Bye"] # Nil

-----------------------------------------------------------------------------
\* The value Init gives a string field: its default pattern, passed through the
\* result hook when the field's type has it.
InitialValue(typeName, n) ==
    IF FieldOf(typeName, n).typ \in ResultFormatters
    THEN G11nResult(FieldOf(typeName, n).tag)
    ELSE FieldOf(typeName, n).tag

\* The closures of a sequence that write field n of instance p.
ClosuresOf(inits, p, n) ==
    { k \in 1..Len(inits) : inits[k].inst = p /\ inits[k].field = n }

\* The string fields of record p itself that an Init has initialized.
OwnInitialized(p) ==
    { n \in StringFields(heap[p].type) : <<p, n>> \in InitializedStringFields }

\* C14 as stated: a second Init of a record leaves each of its initialized
\* string fields with the value it held just before, in every state.
C14_SecondInitKeepsStringValues ==
    [][last'.op = "Init" =>
          \A n \in OwnInitialized(last'.ptr) :
              heap'[last'.ptr].f[n] = heap[last'.ptr].f[n]]_vars

\* C14 (amended): a second Init of a record gives each of its initialized
\* string fields its initial value again (the default pattern, hooked when
\* the type has the hook); while no LoadLocale has returned that is the
\* value the field held just before, so the second Init changes no string
\* field; and it adds exactly one closure for each such field, with the key
\* and pattern of the field's earlier closures.
C14_SecondInitResetsStringValues ==
    [][last'.op = "Init" =>
          \A n \in OwnInitialized(last'.ptr) :
              LET p == last'.ptr
                  before == ClosuresOf(stringInitializers, p, n)
                  after == ClosuresOf(stringInitializers', p, n)
              IN /\ heap'[p].f[n] = InitialValue(heap[p].type, n)
                 /\ ~loaded => heap'[p].f[n] = heap[p].f[n]
                 /\ before \subseteq after
                 /\ Cardinality(after) = Cardinality(before) + 1
                 /\ \A k \in after :
                       /\ stringInitializers'[k].messageKey = KeyOf(p, n)
                       /\ stringInitializers'[k].messagePattern = DefaultOf(p, n)]_vars

\* C14 witness: the second Init of a Greeter has returned after LoadLocale
\* ("fr") had set its Title to "Bienvenue": Title is "Welcome" again although
\* the dictionary has Greeter.Title, and Title has two closures.
C14_Witness ==
    /\ last.op = "Init" /\ last.panic = NoPanic
    /\ heap[last.ptr].type = "Greeter"
    /\ dictionary = Load("fr.yaml")
    /\ heap[last.ptr].f["Title"] = <<"Welcome">>
    /\ Cardinality(ClosuresOf(stringInitializers, last.ptr, "Title")) = 2

-----------------------------------------------------------------------------
\* The string fields the last Init initialized: those of the record and of the
\* embedded records it created that have a closure.
StringFieldsOfLastInit ==
    { x \in InitializedStringFields : x[1] \in InstancesOfLastInit \ {Nil} }

\* C15: when Init has just run, every string field it initialized holds its
\* initial value (the default pattern, hooked when the type has the hook),
\* whatever the dictionary holds, also when it holds the field's key; a string
\* field changes its value only in an Init or in a LoadLocale that returns;
\* and when a LoadLocale has just returned the field holds the dictionary's
\* entry for its key, or the default pattern.
C15_InitAssignsDefault ==
    /\ [](last.op = "Init" =>
            \A x \in StringFieldsOfLastInit :
                heap[x[1]].f[x[2]] = InitialValue(heap[x[1]].type, x[2]))
    /\ [][\A i \in 1..Len(heap) :
             \A n \in StringFields(heap[i].type) :
                 heap'[i].f[n] # heap[i].f[n] =>
                     \/ last'.op = "Init"
                     \/ last'.op = "LoadLocale" /\ last'.panic = NoPanic]_vars
    /\ [](LoadedOK =>
            \A x \in InitializedStringFields :
                heap[x[1]].f[x[2]] =
                    Lookup(dictionary, KeyOf(x[1], x[2]), DefaultOf(x[1], x[2])))

\* C15 witness: a Greeter is initialized for the first time while the German
\* dictionary is active: the Title of its Common holds the hooked default
\* although the dictionary has an entry for Common.Title.
C15_Witness ==
    /\ last.op = "Init" /\ last.panic = NoPanic
    /\ heap[last.ptr].type = "Greeter"
    /\ Len(stringInitializers) = 2
    /\ dictionary = Load("de.yaml")
    /\ <<"Common", ".", "Title">> \in DOMAIN dictionary
    /\ heap[heap[last.ptr].f["Common"]].f["Title"] = <<"<<", "Shared", ">>">>

-----------------------------------------------------------------------------
\* C16: the registry is empty in a new factory and has one entry per tag. A
\* SetLocale never panics, whatever the format and path, and makes its format
\* and path the entry of its tag, over any earlier entry; a SetLocales does so
\* for each of its tags; both leave the other entries, the dictionary, the
\* closures, the handlers and every field as they are, and no other operation
\* writes the registry: so the registered tags are the tags ever registered,
\* and Locales returns exactly them. LoadLocale(tag) takes the format and the
\* path of the entry, that is of the tag's latest registration.
C16_RegistryLastWins ==
    /\ locales = <<>>
    /\ [][/\ last'.op = "SetLocale" =>
                /\ last'.panic = NoPanic
                /\ DOMAIN locales' = (DOMAIN locales) \cup {last'.tag}
                /\ locales'[last'.tag] =
                      [format |-> last'.args[1], path |-> last'.args[2]]
                /\ \A t \in (DOMAIN locales) \ {last'.tag} : locales'[t] = locales[t]
          /\ last'.op = "SetLocales" =>
                /\ last'.panic = NoPanic
                /\ DOMAIN locales' = (DOMAIN locales) \cup (DOMAIN last'.args[1])
                /\ \A t \in DOMAIN last'.args[1] :
                      locales'[t] = [format |-> last'.args[2], path |-> last'.args[1][t]]
                /\ \A t \in (DOMAIN locales) \ (DOMAIN last'.args[1]) :
                      locales'[t] = locales[t]
          /\ last'.op \in {"SetLocale", "SetLocales"} =>
                /\ dictionary' = dictionary
                /\ stringInitializers' = stringInitializers
                /\ handlers' = handlers
                /\ heap' = heap
          /\ last'.op \notin {"SetLocale", "SetLocales"} => locales' = locales
          /\ last'.op = "Locales" =>
                last'.result = DOMAIN locales /\ last'.panic = NoPanic
          /\ (last'.op = "LoadLocale" /\ last'.tag \in DOMAIN locales) =>
                IF locales[last'.tag].format \in LoaderFormats
                THEN /\ last'.panic = NoPanic
                     /\ dictionary' = Load(locales[last'.tag].path)
                ELSE /\ last'.panic = <<"Unknown locale format '",
                                        locales[last'.tag].format, "'.">>
                     /\ dictionary' = dictionary]_vars

\* C16 witness: "fr" and "de" were registered together as yaml files, "de"
\* was then registered again with the path fr.yaml, and LoadLocale("de") has
\* returned with the content of fr.yaml as the dictionary.
C16_Witness ==
    /\ last.op = "LoadLocale" /\ last.tag = "de" /\ last.panic = NoPanic
    /\ DOMAIN locales = {"fr", "de"}
    /\ locales["fr"] = [format |-> "yaml", path |-> "fr.yaml"]
    /\ locales["de"] = [format |-> "yaml", path |-> "fr.yaml"]
    /\ dictionary = Load("fr.yaml")

-----------------------------------------------------------------------------
\* The dictionaries a loader returns, and the empty one of a new factory.
WholeDictionaries == {<<>>} \cup { Load(path) : path \in LocaleFiles }

\* C17: while a LoadLocale is under way the dictionary is the one the factory
\* had when the load began, up to the assignment, and from the assignment on
\* the one the loader returned: at every moment a whole dictionary, never a
\* mixture of the two. A func field called while the load is under way reads
\* the dictionary once, does not write it, and formats the entry that
\* dictionary has for its key (or, without an entry, the pattern the handler
\* holds): it sees the whole old or the whole new dictionary.
C17_InvocationSeesOldOrNew ==
    /\ [](dictionary \in WholeDictionaries)
    /\ [](loading # Idle =>
            LET new == Load(locales[loading.tag].path) IN
            /\ dictionary \in {loading.old, new}
            /\ loading.phase = "load" => dictionary = loading.old
            /\ loading.phase = "refresh" => dictionary = new)
    /\ [][(last'.op = "Invoke" /\ loading # Idle) =>
            LET env == handlers[heap[last'.ptr].f[last'.field]] IN
            /\ dictionary' = dictionary
            /\ loading' = loading
            /\ last'.result.v =
                  ExpectedOutput(Lookup(dictionary, env.messageKey, env.messagePattern),
                                 last'.args, env.resultType)]_vars

\* C17 witness: Bye has been called while LoadLocale("de") was replacing the
\* French dictionary, after the assignment and before the first closure ran:
\* the call formatted the German entry for Common.Bye, while the Greeter's
\* Title still shows the French text.
C17_Witness ==
    /\ last.op = "Invoke" /\ last.field = "Bye"
    /\ loading.phase = "refresh" /\ loading.tag = "de" /\ loading.k = 1
    /\ loading.old = Load("fr.yaml")
    /\ dictionary = Load("de.yaml")
    /\ last.args = <<Str(<<"Sam">>), [type |-> "Money", v |-> <<"5">>]>>
    /\ last.result.v = ExpectedOutput(<<"Tschuess ", "%v">>, last.args, "Loud")
    /\ \E i \in 1..Len(heap) :
          heap[i].type = "Greeter" /\ heap[i].f["Title"] = <<"Bienvenue">>

-----------------------------------------------------------------------------
\* The index of the field of a record type at which Init panics: a func field
\* that does not declare exactly one result, or an embedded record whose
\* initialization panics; 0 when Init returns.
FaultIndex(typeName) ==
    LET faulty == { i \in 1..Len(Fields(typeName)) :
                      LET fd == Fields(typeName)[i] IN
                      IF fd.anonymous THEN FirstFault(fd.elem) # -1
                      ELSE fd.kind = "func" /\ Len(fd.out) # 1 }
    IN IF faulty = {} THEN 0 ELSE CHOOSE i \in faulty : \A j \in faulty : i <= j

\* C18: an Init that panics at a field has wired every field declared before
\* it: a string field holds its initial value and has a closure of this Init,
\* a func field has a handler of this Init, an embedded record is a new
\* instance whose fields are wired likewise; the fields declared after the
\* offending one, and the registry and the dictionary, are as before. The
\* closures stay, and a LoadLocale that returns later writes the dictionary's
\* entry or the default into each of those string fields.
C18_FailedInitKeepsEarlierFields ==
    /\ [][(last'.op = "Init" /\ last'.panic # NoPanic) =>
            LET p == last'.ptr
                T == heap[p].type
                newClosures == (Len(stringInitializers) + 1)..Len(stringInitializers')
                newHandlers == (Len(handlers) + 1)..Len(handlers')
                Wired(i, fd) ==
                    IF fd.kind = "string"
                    THEN /\ heap'[i].f[fd.name] = InitialValue(heap'[i].type, fd.name)
                         /\ ClosuresOf(stringInitializers', i, fd.name) \cap newClosures # {}
                    ELSE heap'[i].f[fd.name] \in newHandlers
            IN /\ FaultIndex(T) # 0
               /\ \A j \in 1..Len(Fields(T)) :
                     LET fd == Fields(T)[j] IN
                     IF j < FaultIndex(T)
                     THEN IF fd.anonymous
                          THEN LET e == heap'[p].f[fd.name] IN
                               /\ e \in (Len(heap) + 1)..Len(heap')
                               /\ heap'[e].type = fd.elem
                               /\ \A m \in 1..Len(Fields(fd.elem)) :
                                     Wired(e, Fields(fd.elem)[m])
                          ELSE Wired(p, fd)
                     ELSE heap'[p].f[fd.name] = heap[p].f[fd.name]
               /\ SubSeq(stringInitializers', 1, Len(stringInitializers)) = stringInitializers
               /\ locales' = locales
               /\ dictionary' = dictionary]_vars
    /\ [](LoadedOK =>
            \A k \in 1..Len(stringInitializers) :
                FaultIndex(heap[stringInitializers[k].inst].type) # 0 =>
                    heap[stringInitializers[k].inst].f[stringInitializers[k].field] =
                        Lookup(dictionary, stringInitializers[k].messageKey,
                               stringInitializers[k].messagePattern))

\* C18 witness: Init of a Bad record panicked at Pair, and LoadLocale("de")
\* has returned since: Name, declared before Pair, shows the German text and
\* so does the Title of the embedded Common; Pair and After were never wired.
C18_Witness ==
    /\ LoadedOK
    /\ \E i \in 1..Len(heap) :
          /\ heap[i].type = "Bad"
          /\ heap[i].f["Name"] = <<"Schlecht">>
          /\ heap[i].f["Common"] # Nil
          /\ heap[heap[i].f["Common"]].f["Title"] = <<"Gemeinsam">>
          /\ heap[heap[i].f["Common"]].f["Bye"] # Nil
          /\ heap[i].f["Pair"] = Nil
          /\ heap[i].f["After"] = <<>>

-----------------------------------------------------------------------------
\* The instances some record's anonymous field points to, and the instances
\* Init created that no record points to any more.
Reachable(h) ==
    UNION { { h[i].f[a] : a \in AnonymousFields(h[i].type) } : i \in 1..Len(h) } \ {Nil}
Detached(h) ==
    { e \in 1..Len(h) : h[e].owner = "Init" /\ e \notin Reachable(h) }

\* C19: an Init of a record whose anonymous field already points to an
\* instance e sets the field to an instance this Init created; e is then
\* detached (no record points to it). The closures there were stay in place
\* and stay bound to the instances they were bound to, e among them, and no
\* new closure is bound to e; each string field of the new instance gets one
\* closure of this Init. When a LoadLocale has returned after that, the
\* string fields of the instance each record points to hold the dictionary's
\* entry or the default pattern (and so do those of the detached instances,
\* which their closures still write).
C19_ReInitReplacesEmbedded ==
    /\ [][last'.op = "Init" =>
            \A a \in { b \in AnonymousFields(heap[last'.ptr].type) :
                          heap[last'.ptr].f[b] # Nil } :
            LET p == last'.ptr
                e == heap[p].f[a]
                new == heap'[p].f[a]
                newClosures == (Len(stringInitializers) + 1)..Len(stringInitializers')
            IN /\ new \in (Len(heap) + 1)..Len(heap')
               /\ new # e
               /\ heap'[new].type = heap[e].type
               /\ e \in Detached(heap')
               /\ SubSeq(stringInitializers', 1, Len(stringInitializers)) = stringInitializers
               /\ \A n \in StringFields(heap[e].type) :
                     /\ ClosuresOf(stringInitializers, e, n) # {}
                     /\ ClosuresOf(stringInitializers', e, n) =
                           ClosuresOf(stringInitializers, e, n)
                     /\ ClosuresOf(stringInitializers', new, n) \subseteq newClosures
                     /\ Cardinality(ClosuresOf(stringInitializers', new, n)) = 1]_vars
    /\ []((LoadedOK /\ Detached(heap) # {}) =>
            \A e \in Reachable(heap) \cup Detached(heap) :
                \A n \in StringFields(heap[e].type) :
                    heap[e].f[n] = Lookup(dictionary, KeyOf(e, n), DefaultOf(e, n)))

\* C19 witness: a Greeter was initialized twice and LoadLocale("de") has
\* returned: its Common is the instance of the second Init, the Common of the
\* first Init is detached, and the Title of both is the German text.
C19_Witness ==
    /\ LoadedOK
    /\ dictionary = Load("de.yaml")
    /\ \E i \in 1..Len(heap) : \E d \in Detached(heap) :
          /\ heap[i].type = "Greeter"
          /\ heap[i].f["Common"] \notin {Nil, d}
          /\ heap[d].type = "Common"
          /\ heap[d].f["Title"] = <<"Gemeinsam">>
          /\ heap[heap[i].f["Common"]].f["Title"] = <<"Gemeinsam">>
          /\ ClosuresOf(stringInitializers, d, "Title") # {}
          /\ ClosuresOf(stringInitializers, heap[i].f["Common"], "Title") # {}

-----------------------------------------------------------------------------
\* C20: the key of every closure and of every handler is the name of the
\* record type that declares the field, a dot, and the field's name, and
\* nothing of the instance. So when a LoadLocale has just returned, the
\* same-named string fields of any two initialized instances of one type are
\* equal, and each holds what the dictionary has under its own type's key (or
\* its default); and two closures for the same field name in different
\* record types have different keys.
C20_KeyIsTypeAndFieldName ==
    /\ \A k \in 1..Len(stringInitializers) :
          stringInitializers[k].messageKey =
              <<heap[stringInitializers[k].inst].type, ".", stringInitializers[k].field>>
    /\ \A x \in WiredFuncFields :
          handlers[heap[x[1]].f[x[2]]].messageKey = <<heap[x[1]].type, ".", x[2]>>
    /\ \A j, k \in 1..Len(stringInitializers) :
          LET c == stringInitializers[j]
              d == stringInitializers[k]
          IN /\ (heap[c.inst].type = heap[d.inst].type /\ c.field = d.field) =>
                   /\ c.messageKey = d.messageKey
                   /\ LoadedOK => heap[c.inst].f[c.field] = heap[d.inst].f[d.field]
             /\ (heap[c.inst].type # heap[d.inst].type /\ c.field = d.field) =>
                   c.messageKey # d.messageKey
    /\ LoadedOK =>
          \A x \in InitializedStringFields :
              heap[x[1]].f[x[2]] =
                  Lookup(dictionary, <<heap[x[1]].type, ".", x[2]>>, DefaultOf(x[1], x[2]))

\* C20 witness: LoadLocale("fr") has returned; a Greeter and two instances of
\* Common (the one it points to and the one an earlier Init created) each have
\* a field Title: the Greeter's holds the French Greeter.Title, the two
\* Commons' both hold Common's default, as fr.yaml has no Common.Title.
C20_Witness ==
    /\ LoadedOK
    /\ dictionary = Load("fr.yaml")
    /\ \E g, c1, c2 \in 1..Len(heap) :
          /\ c1 # c2
          /\ heap[g].type = "Greeter" /\ heap[c1].type = "Common" /\ heap[c2].type = "Common"
          /\ {<<g, "Title">>, <<c1, "Title">>, <<c2, "Title">>} \subseteq InitializedStringFields
          /\ heap[g].f["Title"] = <<"Bienvenue">>
          /\ heap[c1].f["Title"] = <<"Shared">>
          /\ heap[c2].f["Title"] = <<"Shared">>

====
